---------------------------- MODULE Spec2Model ----------------------------
(***************************************************************************)
(* Model of the container lifecycle manager of src/app.py: the Flask       *)
(* handlers list_containers, start_container, container_stats,             *)
(* restart_container, stop_container and remove_container, run against a   *)
(* Docker engine whose state is the set of containers it holds.            *)
(*                                                                         *)
(* Each handler is one action: it performs every engine call of the        *)
(* handler's code in order, follows the handler's except clauses, and      *)
(* records the HTTP response it returns.  Every engine call may raise      *)
(* (daemon unreachable, socket not accessible): the request's fault        *)
(* (failAt, exc) names the call that raises, 0 for none.                   *)
(***************************************************************************)
EXTENDS Integers, Sequences, FiniteSets, TLC

VARIABLES
    containers,  \* the engine's containers: records id, name, status, port, image
    nextId,      \* number of containers the engine has created so far
    req,         \* the last request served
    resp,        \* the response returned for it
    calls,       \* the state-changing engine calls the last request issued
    raised,      \* type of the exception raised while serving it, "none" if none
    observed,    \* status restart_container read at its reload, "none" if it read none
    stats,       \* snapshot the engine returned to container_stats, NoStats if none
    pending,     \* requests in flight: they have read the engine and not yet acted
    actedOn      \* status of the container when restart_container issued its call

vars == <<containers, nextId, req, resp, calls, raised, observed, stats,
          pending, actedOn>>

-----------------------------------------------------------------------------
(* Bounds of the model. *)

\* containers the engine creates in one behaviour (ids are never reused)
MaxCreated == 2

\* requests in flight at once
MaxPending == 2

\* largest cumulative tick count of a resource snapshot
MaxTicks == 5

\* largest number of entries of a snapshot's per-CPU breakdown
MaxCpus == 2

-----------------------------------------------------------------------------
(* Constants of the program. *)

BasePort == 5050

WettyImage == "wettyoss/wetty"

NoName == "<absent>"

\* a request as the history variable req keeps it; fault says that one of
\* its engine calls was made to raise
Request(op, ident, name, failAt) ==
    [op |-> op, ident |-> ident, name |-> name, fault |-> failAt # 0,
     port |-> 0]

\* the 'port' field of a create request's body, NoPort when it carries none
NoPort == 0

PortHints == {NoPort, 8080}

\* POST /start_container with body {name?, port?}
CreateRequest(name, hint, failAt) ==
    [op |-> "create", ident |-> "", name |-> name, fault |-> failAt # 0,
     port |-> hint]

\* the value of stats when the last request fetched no snapshot
NoStats == [cpu |-> 0, precpu |-> 0, sys |-> 0, presys |-> 0,
            ncpu |-> 0, hasMem |-> FALSE, mem |-> -1]

\* names a create request may carry
ReqNames == {"student_2"}

\* the engine's identifier of the n-th container it creates
IdOf(n) == "c" \o ToString(n)

Ids == {IdOf(n) : n \in 1..MaxCreated}

\* identifiers a request may carry: an engine id or a container name
Idents == Ids \cup ReqNames

Statuses == {"created", "running", "paused", "exited", "dead"}

ImageStates == {"tagged", "untagged", "missing"}

ExcTypes == {"APIError", "PermissionError"}

\* the faults of a request that makes k engine calls: none, or call number
\* failAt raises an exception of type exc
Faults(k) == {<<0, "none">>} \cup ((1..k) \X ExcTypes)

-----------------------------------------------------------------------------
(* The engine, as the handlers see it through the docker client. *)

\* client.containers.list(all=True) / client.containers.list(): without
\* all=True the engine lists the containers whose process exists, which
\* includes the paused ones.
Listed(cs, all) ==
    IF all THEN cs ELSE {c \in cs : c.status \in {"running", "paused"}}

\* A host port is bound while a container publishing it has a live process.
PortBound(cs, p) ==
    \E c \in cs : c.port = p /\ c.status \in {"running", "paused"}

\* client.containers.get(ident): the engine resolves an id or a name.
Resolves(cs, ident) ==
    \E c \in cs : c.id = ident \/ c.name = ident

Resolve(cs, ident) ==
    CHOOSE c \in cs : c.id = ident \/ c.name = ident

\* The container c of cs with its status set to s.
WithStatus(cs, c, s) ==
    (cs \ {c}) \cup {[c EXCEPT !.status = s]}

\* Exceptions: a type and the engine's text.
Exc(type, text) == [type |-> type, text |-> text]

NoExc == Exc("none", "")

NotFoundExc == Exc("NotFound", "No such container")

FaultExc(type) ==
    IF type = "APIError" THEN Exc("APIError", "server error")
    ELSE Exc("PermissionError", "Permission denied")

\* an exception text taken from a field NotFound leaves empty
Str_NotFoundEmpty(e) ==
    CASE e.type = "NotFound" -> ""
      [] e.type = "APIError" -> "500 Server Error: (" \o e.text \o ")"
      [] OTHER               -> "[Errno 13] " \o e.text

\* str(e) of the handlers' generic except clauses.
Str(e) ==
    CASE e.type = "NotFound" -> "404 Client Error: Not Found (" \o e.text \o ")"
      [] e.type = "APIError" -> "500 Server Error: (" \o e.text \o ")"
      [] OTHER               -> "[Errno 13] " \o e.text

\* container.start(): outcome [cs, exc].
EngineStart(cs, c) ==
    CASE c.status = "running" -> {[cs |-> cs, exc |-> NoExc]}
      [] c.status = "paused" ->
            {[cs |-> cs, exc |-> Exc("APIError", "cannot start a paused container, try unpause instead")]}
      [] c.status \in {"exited", "created"} ->
            IF PortBound(cs \ {c}, c.port)
            THEN {[cs |-> cs, exc |-> Exc("APIError", "port is already allocated")]}
            ELSE {[cs |-> WithStatus(cs, c, "running"), exc |-> NoExc]}
      [] OTHER ->
            {[cs |-> cs, exc |-> Exc("APIError", "container is marked for removal and cannot be started")]}

\* container.restart(): stop, then start.
EngineRestart(cs, c) ==
    CASE c.status = "paused" ->
            {[cs |-> cs, exc |-> Exc("APIError", "container is paused, unpause it before restart")]}
      [] c.status = "dead" ->
            {[cs |-> cs, exc |-> Exc("APIError", "container is marked for removal and cannot be started")]}
      [] OTHER ->
            IF PortBound(cs \ {c}, c.port)
            THEN {[cs |-> WithStatus(cs, c, "exited"),
                   exc |-> Exc("APIError", "port is already allocated")]}
            ELSE {[cs |-> WithStatus(cs, c, "running"), exc |-> NoExc]}

\* a stop that also discards the container
EngineStop_Discards(cs, c) ==
    {[cs |-> cs \ {c}, exc |-> NoExc]}

\* container.stop(): a container with a live process exits, any other is
\* left as it is (the engine answers 304).
EngineStop(cs, c) ==
    IF c.status \in {"running", "paused"}
    THEN {[cs |-> WithStatus(cs, c, "exited"), exc |-> NoExc]}
    ELSE {[cs |-> cs, exc |-> NoExc]}

\* a remove that only stops the container
EngineRemove_StopsOnly(cs, c) ==
    {[cs |-> WithStatus(cs, c, "exited"), exc |-> NoExc]}

\* container.remove() without force: the engine refuses a container whose
\* process is live
EngineRemove_NoForce(cs, c) ==
    IF c.status \in {"running", "paused"}
    THEN {[cs |-> cs, exc |-> Exc("APIError", "cannot remove a running container")]}
    ELSE {[cs |-> cs \ {c}, exc |-> NoExc]}

\* container.remove(force=True)
EngineRemove(cs, c) ==
    {[cs |-> cs \ {c}, exc |-> NoExc]}

\* client.containers.run(image, name=, ports={'3000/tcp': port}, detach=True):
\* an engine that lets two containers hold one name
EngineRun_SharesNames(cs, id, name, port, startFails) ==
    LET c == [id |-> id, name |-> name, status |-> "created",
              port |-> port, image |-> "tagged", tag |-> WettyImage \o ":latest"]
    IN  IF PortBound(cs, port) \/ startFails
        THEN [cs |-> cs \cup {c}, created |-> TRUE,
              exc |-> Exc("APIError", "port is already allocated")]
        ELSE [cs |-> cs \cup {[c EXCEPT !.status = "running"]},
              created |-> TRUE, exc |-> NoExc]

\* the engine creates the container, then starts it.  A start that fails
\* (the host port is bound by another container, or startFails: by a process
\* outside the engine) leaves the created container behind.
EngineRun(cs, id, name, port, startFails) ==
    IF \E c \in cs : c.name = name
    THEN [cs |-> cs, created |-> FALSE,
          exc |-> Exc("APIError", "Conflict. The container name is already in use")]
    ELSE LET c == [id |-> id, name |-> name, status |-> "created",
                   port |-> port, image |-> "tagged", tag |-> WettyImage \o ":latest"]
         IN  IF PortBound(cs, port) \/ startFails
             THEN [cs |-> cs \cup {c}, created |-> TRUE,
                   exc |-> Exc("APIError", "port is already allocated")]
             ELSE [cs |-> cs \cup {[c EXCEPT !.status = "running"]},
                   created |-> TRUE, exc |-> NoExc]

\* c.short_id
ShortId(c) == c.id

-----------------------------------------------------------------------------
(* Responses. *)

\* jsonify({'success': False, 'error': ...}) with its HTTP status
Failure(text, http) ==
    [kind |-> "json", success |-> FALSE, http |-> http, error |-> text]

\* an exception no except clause catches: Flask answers 500 with no JSON body
Unhandled == [kind |-> "unhandled", success |-> FALSE, http |-> 500]

Message(text) ==
    [kind |-> "json", success |-> TRUE, http |-> 200, message |-> text]

\* one engine call that changes state, as the handler issued it
Call(op, id, e) ==
    [op |-> op, id |-> id, ok |-> e.type = "none", name |-> "", port |-> 0]

\* client.containers.run(name=name, ports={'3000/tcp': port}) as issued
RunCall(id, name, port, e) ==
    [op |-> "run", id |-> id, ok |-> e.type = "none", name |-> name, port |-> port]

-----------------------------------------------------------------------------
(* GET /containers *)

\* c.image.tags[0] if c.image.tags else 'untagged', 'unknown' when the
\* image lookup raises
ImageName(c) ==
    CASE c.image = "tagged"   -> c.tag
      [] c.image = "untagged" -> "untagged"
      [] OTHER                -> "unknown"

Entry(c) ==
    [id |-> ShortId(c), name |-> c.name, status |-> c.status, image |-> ImageName(c)]

\* a listing that skips the containers whose image lookup raises
RECURSIVE Listing_DropsUnresolved(_, _)
Listing_DropsUnresolved(cs, n) ==
    IF n = 0 THEN <<>>
    ELSE LET here == {c \in Listed(cs, TRUE) : c.id = IdOf(n) /\ c.image # "missing"}
         IN  (IF here = {} THEN <<>> ELSE <<Entry(CHOOSE c \in here : TRUE)>>)
             \o Listing_DropsUnresolved(cs, n - 1)

\* the for loop over client.containers.list(all=True): one entry appended
\* per container, in the engine's order (newest first); n counts down the
\* containers the engine has created
RECURSIVE Listing(_, _)
Listing(cs, n) ==
    IF n = 0 THEN <<>>
    ELSE LET here == {c \in Listed(cs, TRUE) : c.id = IdOf(n)}
         IN  (IF here = {} THEN <<>> ELSE <<Entry(CHOOSE c \in here : TRUE)>>)
             \o Listing(cs, n - 1)

ListContainers(failAt, exc) ==
    /\ req' = Request("list", "", NoName, failAt)
    /\ IF failAt = 1
       THEN /\ resp' = Unhandled
            /\ raised' = exc
       ELSE /\ resp' = [kind |-> "list", success |-> TRUE, http |-> 200,
                        entries |-> Listing(containers, nextId)]
            /\ raised' = "none"
    /\ calls' = <<>>
    /\ observed' = "none"
    /\ stats' = NoStats
    /\ actedOn' = "none"
    /\ UNCHANGED <<containers, nextId, pending>>

-----------------------------------------------------------------------------
(* POST /start_container *)

StudentName(n) == "student_" \o ToString(n)

\* a name counted over the running containers only
AllocName_CountsRunning(cs, name) ==
    IF name # NoName THEN name
    ELSE StudentName(Cardinality(Listed(cs, FALSE)) + 1)

\* data.get('name', f'student_{len(client.containers.list(all=True)) + 1}')
AllocName(cs, name) ==
    IF name # NoName THEN name
    ELSE StudentName(Cardinality(Listed(cs, TRUE)) + 1)

\* a port counted from one, as the names are
AllocPort_OffByOne(cs) == BasePort + Cardinality(Listed(cs, FALSE)) + 1

\* 5050 + len(client.containers.list())
AllocPort(cs) == BasePort + Cardinality(Listed(cs, FALSE))

\* a host port taken from the request when it carries one
RunPort_HonoursHint(cs, hint) ==
    IF hint # NoPort THEN hint ELSE AllocPort(cs)

\* ports={'3000/tcp': port}: the port computed above, whatever
\* data.get('port') would be
RunPort(cs, hint) == AllocPort(cs)

Url(port) == "http://localhost:" \o ToString(port)

StartContainer(name, hint, failAt, exc) ==
    /\ nextId < MaxCreated
    /\ req' = CreateRequest(name, hint, failAt)
    /\ observed' = "none"
    /\ stats' = NoStats
    /\ actedOn' = "none"
    /\ UNCHANGED pending
    /\ IF failAt \in {1, 2}
       THEN \* a listing call raises, outside the try block
            /\ resp' = Unhandled
            /\ raised' = exc
            /\ calls' = <<>>
            /\ UNCHANGED <<containers, nextId>>
       ELSE LET n == AllocName(containers, name)
                p == RunPort(containers, hint)
            IN  IF failAt = 3
                THEN \* the engine is not reached, or the image pull fails
                     /\ resp' = Failure(Str(FaultExc(exc)), 200)
                     /\ raised' = exc
                     /\ calls' = <<RunCall("", n, p, FaultExc(exc))>>
                     /\ UNCHANGED <<containers, nextId>>
                ELSE LET r == EngineRun(containers, IdOf(nextId + 1), n, p, failAt = 4)
                         id == IF r.created THEN IdOf(nextId + 1) ELSE ""
                     IN  /\ containers' = r.cs
                         /\ nextId' = IF r.created THEN nextId + 1 ELSE nextId
                         /\ raised' = r.exc.type
                         /\ calls' = <<RunCall(id, n, p, r.exc)>>
                         /\ resp' = IF r.exc.type = "none"
                                    THEN [kind |-> "json", success |-> TRUE, http |-> 200,
                                          id |-> id, name |-> n, port |-> p,
                                          url |-> Url(p)]
                                    ELSE Failure(Str(r.exc), 200)

-----------------------------------------------------------------------------
(* GET /container_stats/<container_id> *)

\* container.stats(stream=False): cumulative CPU ticks of the container and
\* of the system, now and at the previous sample, the per-CPU breakdown
\* (ncpu entries, 0 when the engine reports none) and the memory in use
Snapshot(cpu, precpu, sys, presys, ncpu, mem) ==
    [cpu |-> cpu, precpu |-> precpu, sys |-> sys, presys |-> presys,
     ncpu |-> ncpu, hasMem |-> TRUE, mem |-> mem]

\* what the engine reports for a container with no live process: zeroed
\* counters and an empty memory_stats
IdleStats == [cpu |-> 0, precpu |-> 0, sys |-> 0, presys |-> 0,
              ncpu |-> 0, hasMem |-> FALSE, mem |-> 0]

MiB == 1024 * 1024

MemSamples == {0, 1572864, 100 * MiB}

Snapshots ==
    {Snapshot(c, pc, s, ps, n, m) :
        c \in 0..MaxTicks, pc \in 0..MaxTicks, s \in 0..MaxTicks,
        ps \in 0..MaxTicks, n \in 0..MaxCpus, m \in MemSamples}

\* the one snapshot the lifecycle specification serves
SomeSnapshots == {Snapshot(2, 1, 4, 1, 0, 100 * MiB)}

EngineStats(c, snap) ==
    IF c.status \in {"running", "paused"} THEN snap ELSE IdleStats

\* round(x, 2) of the non-negative x = num / den, in hundredths: the nearest
\* hundredth, a tie going to the even one
Round2(num, den) ==
    LET whole == num \div den
        rest  == 100 * (num % den)
        q == rest \div den
        r == rest % den
    IN  100 * whole
          + (IF 2 * r > den \/ (2 * r = den /\ q % 2 = 1) THEN q + 1 ELSE q)

\* a guard that tests the system delta alone
CpuPercent_NoCpuGuard(cpuDelta, systemDelta, numCpus) ==
    IF systemDelta > 0
    THEN [num |-> cpuDelta * numCpus * 100, den |-> systemDelta]
    ELSE [num |-> 0, den |-> 1]

\* cpu_percent of line 68, as the fraction num / den
CpuPercent(cpuDelta, systemDelta, numCpus) ==
    IF systemDelta > 0 /\ cpuDelta > 0
    THEN [num |-> cpuDelta * numCpus * 100, den |-> systemDelta]
    ELSE [num |-> 0, den |-> 1]

\* len(stats['cpu_stats']['cpu_usage'].get('percpu_usage', [])) or 1
NumCpus(snap) == IF snap.ncpu = 0 THEN 1 ELSE snap.ncpu

\* round(cpu_percent, 2) of the response, in hundredths of a percent
CpuField(snap) ==
    LET p == CpuPercent(snap.cpu - snap.precpu, snap.sys - snap.presys, NumCpus(snap))
    IN  IF p.num >= 0 THEN Round2(p.num, p.den) ELSE 0 - Round2(0 - p.num, p.den)

\* round(usage / 1024 ** 2, 2) of the response, in hundredths of a MB
MemField(snap) == Round2(snap.mem, MiB)

ContainerStats(ident, failAt, exc, snap) ==
    /\ req' = Request("stats", ident, NoName, failAt)
    /\ observed' = "none"
    /\ calls' = <<>>
    /\ actedOn' = "none"
    /\ UNCHANGED <<containers, nextId, pending>>
    /\ IF failAt = 1
       THEN /\ resp' = Failure(Str(FaultExc(exc)), 200)
            /\ raised' = exc
            /\ stats' = NoStats
       ELSE IF ~Resolves(containers, ident)
       THEN /\ resp' = Failure(Str(NotFoundExc), 200)
            /\ raised' = "NotFound"
            /\ stats' = NoStats
       ELSE IF failAt = 2
       THEN /\ resp' = Failure(Str(FaultExc(exc)), 200)
            /\ raised' = exc
            /\ stats' = NoStats
       ELSE LET got == EngineStats(Resolve(containers, ident), snap)
            IN  /\ stats' = got
                /\ IF got.hasMem
                   THEN /\ resp' = [kind |-> "json", success |-> TRUE, http |-> 200,
                                    cpu |-> CpuField(got), memory |-> MemField(got)]
                        /\ raised' = "none"
                   ELSE \* stats['memory_stats']['usage'] raises KeyError
                        /\ resp' = Failure("'usage'", 200)
                        /\ raised' = "KeyError"

-----------------------------------------------------------------------------
(* POST /restart_container/<container_id> *)

\* an APIError clause that reports the request as served
RestartFailure_SwallowsApiError(e) ==
    CASE e.type = "NotFound" ->
            Failure("Container not found. Please refresh list.", 404)
      [] e.type = "APIError" ->
            Message("Docker API error: " \o e.text)
      [] e.type = "PermissionError" ->
            Failure("Permission denied to access Docker socket.", 200)
      [] OTHER -> Failure(Str(e), 200)

\* a chain that restarts whatever has been started before
ReconcileAction_RestartsStopped(status) ==
    IF status \in {"running", "exited"} THEN "restart" ELSE "start"

\* a chain whose third branch tests 'paused' alone
ReconcileMessage_CreatedFallsThrough(status, cname) ==
    CASE status = "exited"  -> "Container " \o cname \o " started successfully."
      [] status = "running" -> "Container " \o cname \o " restarted successfully."
      [] status = "paused"  -> "Container " \o cname \o " resumed successfully."
      [] OTHER              -> "Container " \o cname \o " started."

\* except clauses with APIError first: NotFound is a subclass of APIError
RestartFailure_ApiErrorFirst(e) ==
    CASE e.type \in {"APIError", "NotFound"} ->
            Failure("Docker API error: " \o e.text, 200)
      [] e.type = "PermissionError" ->
            Failure("Permission denied to access Docker socket.", 200)
      [] OTHER -> Failure(Str(e), 200)

\* the branch of the if/elif chain taken for a status: the engine call it
\* issues and the message it builds
ReconcileAction(status) ==
    IF status = "running" THEN "restart" ELSE "start"

ReconcileMessage(status, cname) ==
    CASE status = "exited"  -> "Container " \o cname \o " started successfully."
      [] status = "running" -> "Container " \o cname \o " restarted successfully."
      [] status \in {"paused", "created"} ->
                               "Container " \o cname \o " resumed successfully."
      [] OTHER              -> "Container " \o cname \o " started."

\* the except clauses, in their order
RestartFailure(e) ==
    CASE e.type = "NotFound" ->
            Failure("Container not found. Please refresh list.", 404)
      [] e.type = "APIError" ->
            Failure("Docker API error: " \o e.text, 200)
      [] e.type = "PermissionError" ->
            Failure("Permission denied to access Docker socket.", 200)
      [] OTHER -> Failure(Str(e), 200)

RestartContainer(ident, failAt, exc) ==
    /\ req' = Request("restart", ident, NoName, failAt)
    /\ stats' = NoStats
    /\ UNCHANGED <<nextId, pending>>
    /\ IF failAt = 1
       THEN /\ resp' = RestartFailure(FaultExc(exc))
            /\ raised' = exc
            /\ calls' = <<>>
            /\ observed' = "none"
            /\ actedOn' = "none"
            /\ UNCHANGED containers
       ELSE IF ~Resolves(containers, ident)
       THEN /\ resp' = RestartFailure(NotFoundExc)
            /\ raised' = "NotFound"
            /\ calls' = <<>>
            /\ observed' = "none"
            /\ actedOn' = "none"
            /\ UNCHANGED containers
       ELSE IF failAt = 2
       THEN /\ resp' = RestartFailure(FaultExc(exc))
            /\ raised' = exc
            /\ calls' = <<>>
            /\ observed' = "none"
            /\ actedOn' = "none"
            /\ UNCHANGED containers
       ELSE LET c == Resolve(containers, ident)
                a == ReconcileAction(c.status)
            IN  /\ observed' = c.status
                /\ actedOn' = c.status
                /\ IF failAt = 3
                   THEN /\ resp' = RestartFailure(FaultExc(exc))
                        /\ raised' = exc
                        /\ calls' = <<Call(a, c.id, FaultExc(exc))>>
                        /\ UNCHANGED containers
                   ELSE \E r \in (IF a = "restart" THEN EngineRestart(containers, c)
                                                   ELSE EngineStart(containers, c)) :
                        /\ containers' = r.cs
                        /\ raised' = r.exc.type
                        /\ calls' = <<Call(a, c.id, r.exc)>>
                        /\ resp' = IF r.exc.type = "none"
                                   THEN Message(ReconcileMessage(c.status, c.name))
                                   ELSE RestartFailure(r.exc)

-----------------------------------------------------------------------------
(* POST /stop_container/<container_id>, DELETE /remove_container/<container_id> *)

\* Both handlers: get the container, issue one engine call, answer with a
\* message naming the identifier; any exception is answered with str(e).
GetThenAct(op, ident, failAt, exc, done) ==
    /\ req' = Request(op, ident, NoName, failAt)
    /\ observed' = "none"
    /\ stats' = NoStats
    /\ actedOn' = "none"
    /\ UNCHANGED <<nextId, pending>>
    /\ IF failAt = 1
       THEN /\ resp' = Failure(Str(FaultExc(exc)), 200)
            /\ raised' = exc
            /\ calls' = <<>>
            /\ UNCHANGED containers
       ELSE IF ~Resolves(containers, ident)
       THEN /\ resp' = Failure(Str(NotFoundExc), 200)
            /\ raised' = "NotFound"
            /\ calls' = <<>>
            /\ UNCHANGED containers
       ELSE LET c == Resolve(containers, ident)
            IN  IF failAt = 2
                THEN /\ resp' = Failure(Str(FaultExc(exc)), 200)
                     /\ raised' = exc
                     /\ calls' = <<Call(op, c.id, FaultExc(exc))>>
                     /\ UNCHANGED containers
                ELSE \E r \in (IF op = "stop" THEN EngineStop(containers, c)
                                              ELSE EngineRemove(containers, c)) :
                     /\ containers' = r.cs
                     /\ raised' = r.exc.type
                     /\ calls' = <<Call(op, c.id, r.exc)>>
                     /\ resp' = IF r.exc.type = "none"
                                THEN Message("Container " \o ident \o " " \o done)
                                ELSE Failure(Str(r.exc), 200)

StopContainer(ident, failAt, exc) ==
    GetThenAct("stop", ident, failAt, exc, "stopped")

RemoveContainer(ident, failAt, exc) ==
    GetThenAct("remove", ident, failAt, exc, "removed")

-----------------------------------------------------------------------------
(* The engine changes a container without this system: an operator pauses  *)
(* it, or its removal fails half way and leaves it dead.                   *)

EngineEvent(id, s) ==
    /\ \E c \in containers :
          /\ c.id = id
          /\ \/ s = "paused" /\ c.status = "running"
             \/ s = "dead" /\ c.status = "exited"
          /\ containers' = WithStatus(containers, c, s)
    /\ req' = Request("engine", id, NoName, 0)
    /\ resp' = [kind |-> "none", success |-> FALSE, http |-> 0]
    /\ calls' = <<>>
    /\ raised' = "none"
    /\ observed' = "none"
    /\ stats' = NoStats
    /\ actedOn' = "none"
    /\ UNCHANGED <<nextId, pending>>

-----------------------------------------------------------------------------

Init ==
    /\ containers = {}
    /\ nextId = 0
    /\ req = Request("none", "", NoName, 0)
    /\ resp = [kind |-> "none", success |-> FALSE, http |-> 0]
    /\ calls = <<>>
    /\ raised = "none"
    /\ observed = "none"
    /\ stats = NoStats
    /\ pending = <<>>
    /\ actedOn = "none"

Next ==
    \/ \E f \in Faults(1) : ListContainers(f[1], f[2])
    \/ \E n \in ReqNames \cup {NoName}, h \in PortHints, f \in Faults(4) :
          StartContainer(n, h, f[1], f[2])
    \/ \E i \in Idents, f \in Faults(2), sn \in SomeSnapshots :
          ContainerStats(i, f[1], f[2], sn)
    \/ \E i \in Idents, f \in Faults(3) : RestartContainer(i, f[1], f[2])
    \/ \E i \in Idents, f \in Faults(2) : StopContainer(i, f[1], f[2])
    \/ \E i \in Idents, f \in Faults(2) : RemoveContainer(i, f[1], f[2])
    \/ \E i \in Ids, s \in {"paused", "dead"} : EngineEvent(i, s)

Spec == Init /\ [][Next]_vars

-----------------------------------------------------------------------------
(* The listing against an engine that holds any containers, the system's   *)
(* own and others', whose images are untagged or deleted under it.         *)

ForeignName(n) == "db_" \o ToString(n)

\* the containers an engine may hold under the id of its n-th container
Held(n) ==
    [id : {IdOf(n)}, name : {StudentName(n), ForeignName(n)}, status : Statuses,
     port : {BasePort + n - 1}, image : {"tagged"},
     tag : {WettyImage \o ":latest"}]

\* docker rmi / docker image rm -f by an operator: the image of a container
\* loses its tags, or is deleted
ImageEvent(id, s) ==
    /\ \E c \in containers :
          /\ c.id = id
          /\ c.image # s
          /\ containers' = (containers \ {c}) \cup {[c EXCEPT !.image = s]}
    /\ req' = Request("engine", id, NoName, 0)
    /\ resp' = [kind |-> "none", success |-> FALSE, http |-> 0]
    /\ calls' = <<>>
    /\ raised' = "none"
    /\ observed' = "none"
    /\ stats' = NoStats
    /\ actedOn' = "none"
    /\ UNCHANGED <<nextId, pending>>

InitList ==
    /\ \E held \in SUBSET (1..MaxCreated) :
          \E f \in [held -> UNION {Held(n) : n \in held}] :
             /\ \A n \in held : f[n] \in Held(n)
             /\ containers = {f[n] : n \in held}
    /\ nextId = MaxCreated
    /\ req = Request("none", "", NoName, 0)
    /\ resp = [kind |-> "none", success |-> FALSE, http |-> 0]
    /\ calls = <<>>
    /\ raised = "none"
    /\ observed = "none"
    /\ stats = NoStats
    /\ pending = <<>>
    /\ actedOn = "none"

NextList ==
    \/ \E f \in Faults(1) : ListContainers(f[1], f[2])
    \/ \E i \in Ids, s \in ImageStates : ImageEvent(i, s)

SpecList == InitList /\ [][NextList]_vars

-----------------------------------------------------------------------------
(* The stats handler over every snapshot an engine may report for one      *)
(* container it holds, in any status.                                      *)

InitStats ==
    /\ containers \in {{c} : c \in Held(1)}
    /\ nextId = MaxCreated
    /\ req = Request("none", "", NoName, 0)
    /\ resp = [kind |-> "none", success |-> FALSE, http |-> 0]
    /\ calls = <<>>
    /\ raised = "none"
    /\ observed = "none"
    /\ stats = NoStats
    /\ pending = <<>>
    /\ actedOn = "none"

\* one request in a behaviour: the handler changes nothing that it reads
NextStats ==
    /\ req.op = "none"
    /\ \E i \in Idents, f \in Faults(2), sn \in Snapshots :
          ContainerStats(i, f[1], f[2], sn)

SpecStats == InitStats /\ [][NextStats]_vars

-----------------------------------------------------------------------------
(* Requests served at the same time.  A handler runs one engine call at a  *)
(* time, and the calls of other requests fall between them: restart reads  *)
(* the container (get), reads it again (reload) and then acts; create      *)
(* lists all containers, lists the running ones and then runs the new one. *)
(* No engine call is made to raise here.                                   *)

\* a request in flight, with what it has read so far
InFlight(op, ident, id, cname, got, seen, name, hint, alloc, port, sawAll, sawLive) ==
    [op |-> op, ident |-> ident, id |-> id, cname |-> cname, got |-> got,
     seen |-> seen, name |-> name, hint |-> hint, alloc |-> alloc,
     port |-> port, sawAll |-> sawAll, sawLive |-> sawLive, peer |-> ""]

\* the sequence q without its k-th element
Without(q, k) ==
    [i \in 1..(Len(q) - 1) |-> IF i < k THEN q[i] ELSE q[i + 1]]

\* both listings of a create in flight are read
HasRead(p) == p.op = "create" /\ p.port # 0

\* q after its k-th create ran: when the run gave a container its name, the
\* creates that had read their listings before it remember that name
AfterRun(q, k, won) ==
    Without([i \in 1..Len(q) |->
                IF won /\ i # k /\ HasRead(q[i])
                THEN [q[i] EXCEPT !.peer = q[k].alloc] ELSE q[i]], k)

\* the history variables of a request that a step of another leaves alone
NoAnswer == UNCHANGED <<req, resp, calls, raised, observed, stats, actedOn>>

\* the restart request answers with what its handler caught
RestartAnswer(p, r, cs) ==
    /\ req' = Request("restart", p.ident, NoName, 0)
    /\ resp' = r
    /\ containers' = cs
    /\ stats' = NoStats
    /\ UNCHANGED nextId

\* container = client.containers.get(container_id)
RestartGet(ident) ==
    /\ Len(pending) < MaxPending
    /\ IF Resolves(containers, ident)
       THEN LET c == Resolve(containers, ident)
            IN  /\ pending' = Append(pending,
                      InFlight("restart", ident, c.id, c.name, c.status, "none",
                               NoName, NoPort, "", 0, 0, 0))
                /\ NoAnswer
                /\ UNCHANGED <<containers, nextId>>
       ELSE /\ RestartAnswer([ident |-> ident], RestartFailure(NotFoundExc), containers)
            /\ raised' = "NotFound"
            /\ calls' = <<>>
            /\ observed' = "none"
            /\ actedOn' = "none"
            /\ UNCHANGED pending

\* container.reload()
RestartReload(k) ==
    /\ k \in 1..Len(pending)
    /\ pending[k].op = "restart" /\ pending[k].seen = "none"
    /\ LET p == pending[k]
       IN  IF Resolves(containers, p.id)
           THEN /\ pending' = [pending EXCEPT ![k].seen = Resolve(containers, p.id).status]
                /\ NoAnswer
                /\ UNCHANGED <<containers, nextId>>
           ELSE /\ RestartAnswer(p, RestartFailure(NotFoundExc), containers)
                /\ raised' = "NotFound"
                /\ calls' = <<>>
                /\ observed' = "none"
                /\ actedOn' = "none"
                /\ pending' = Without(pending, k)

\* a decision taken from the status that get() returned
DecisionStatus_Stale(p) == p.got

\* container.status in the if/elif chain: the status the reload stored
DecisionStatus(p) == p.seen

\* the if/elif chain and the engine call of its branch
RestartAct(k) ==
    /\ k \in 1..Len(pending)
    /\ pending[k].op = "restart" /\ pending[k].seen # "none"
    /\ LET p == pending[k]
           a == ReconcileAction(DecisionStatus(p))
       IN  /\ pending' = Without(pending, k)
           /\ observed' = p.seen
           /\ IF Resolves(containers, p.id)
              THEN LET c == Resolve(containers, p.id)
                   IN  /\ actedOn' = c.status
                       /\ \E r \in (IF a = "restart" THEN EngineRestart(containers, c)
                                                     ELSE EngineStart(containers, c)) :
                             /\ RestartAnswer(p,
                                   IF r.exc.type = "none"
                                   THEN Message(ReconcileMessage(DecisionStatus(p), p.cname))
                                   ELSE RestartFailure(r.exc), r.cs)
                             /\ raised' = r.exc.type
                             /\ calls' = <<Call(a, c.id, r.exc)>>
              ELSE /\ actedOn' = "none"
                   /\ RestartAnswer(p, RestartFailure(NotFoundExc), containers)
                   /\ raised' = "NotFound"
                   /\ calls' = <<Call(a, p.id, NotFoundExc)>>

\* creates in flight
Creating == {k \in 1..Len(pending) : pending[k].op = "create"}

\* data.get('name', f'student_{len(client.containers.list(all=True)) + 1}')
CreateListAll(name, hint) ==
    /\ Len(pending) < MaxPending
    /\ nextId + Cardinality(Creating) < MaxCreated
    /\ pending' = Append(pending,
          InFlight("create", "", "", "", "none", "none", name, hint,
                   AllocName(containers, name), 0,
                   Cardinality(Listed(containers, TRUE)), 0))
    /\ NoAnswer
    /\ UNCHANGED <<containers, nextId>>

\* port = 5050 + len(client.containers.list())
CreateListLive(k) ==
    /\ k \in Creating
    /\ pending[k].port = 0
    /\ pending' = [pending EXCEPT ![k].port = RunPort(containers, pending[k].hint),
                                  ![k].sawLive = Cardinality(Listed(containers, FALSE))]
    /\ NoAnswer
    /\ UNCHANGED <<containers, nextId>>

\* client.containers.run(...) and the response
CreateRun(k) ==
    /\ k \in Creating
    /\ pending[k].port # 0
    /\ LET p == pending[k]
           r == EngineRun(containers, IdOf(nextId + 1), p.alloc, p.port, FALSE)
           id == IF r.created THEN IdOf(nextId + 1) ELSE ""
       IN  /\ pending' = AfterRun(pending, k, r.exc.type = "none")
           /\ req' = CreateRequest(p.name, p.hint, 0)
           /\ containers' = r.cs
           /\ nextId' = IF r.created THEN nextId + 1 ELSE nextId
           /\ raised' = r.exc.type
           /\ calls' = <<RunCall(id, p.alloc, p.port, r.exc)>>
           /\ resp' = IF r.exc.type = "none"
                      THEN [kind |-> "json", success |-> TRUE, http |-> 200,
                            id |-> id, name |-> p.alloc, port |-> p.port,
                            url |-> Url(p.port)]
                      ELSE Failure(Str(r.exc), 200)
           /\ observed' = "none"
           /\ stats' = NoStats
           /\ actedOn' = "none"

NextConc ==
    \/ \E i \in Ids : RestartGet(i)
    \/ \E k \in 1..MaxPending : RestartReload(k)
    \/ \E k \in 1..MaxPending : RestartAct(k)
    \/ \E n \in ReqNames \cup {NoName} : CreateListAll(n, NoPort)
    \/ \E k \in 1..MaxPending : CreateListLive(k)
    \/ \E k \in 1..MaxPending : CreateRun(k)
    \/ \E i \in Ids : StopContainer(i, 0, "none")
    \/ \E i \in Ids : RemoveContainer(i, 0, "none")

SpecConc == Init /\ [][NextConc]_vars

-----------------------------------------------------------------------------
(* Properties. *)

NotFoundText == "Container not found. Please refresh list."

\* C1: the host ports of all containers the engine holds, running or
\* stopped, are pairwise distinct.
C1_PortsPairwiseDistinct ==
    \A c1, c2 \in containers : c1.id # c2.id => c1.port # c2.port

\* C2: the name a create without a requested name synthesizes is the name of
\* no container that exists when it is allocated (in the state after the
\* request: of no container but the one the request created).
C2_SynthesizedNameUnused ==
    (req.op = "create" /\ req.name = NoName /\ calls # <<>>)
        => \A c \in containers : c.name = calls[1].name => c.id = calls[1].id

\* C3: for a create without a requested name, the name passed to the engine
\* (and returned on success) is "student_" followed by n + 1, n the number of
\* containers the engine held, stopped ones included: student_1 for none,
\* student_2 for one.
C3_SynthesizedName ==
    (req.op = "create" /\ req.name = NoName /\ calls # <<>>)
        => LET n == Cardinality(containers) - (IF calls[1].id # "" THEN 1 ELSE 0)
           IN  /\ calls[1].name = "student_" \o ToString(n + 1)
               /\ n = 0 => calls[1].name = "student_1"
               /\ n = 1 => calls[1].name = "student_2"
               /\ resp.success => resp.name = calls[1].name

C3_Witness ==
    /\ req.op = "create" /\ req.name = NoName
    /\ resp.success /\ resp.name = "student_2"
    /\ \E c \in containers : c.status = "exited"

\* C4: a successful create without a name against an empty engine returns
\* student_1, port 5050 and the URL of that port, and a listing served right
\* after it holds a container of that name that is running or created.
C4_CreateThenList ==
    [][ /\ (req'.op = "create" /\ req'.name = NoName /\ resp'.success /\ containers = {})
            => /\ resp'.name = "student_1"
               /\ resp'.port = 5050
               /\ resp'.url = "http://localhost:5050"
        /\ (/\ req.op = "create" /\ req.name = NoName /\ resp.success
            /\ Cardinality(containers) = 1
            /\ req'.op = "list" /\ resp'.kind = "list")
            => \E i \in 1..Len(resp'.entries) :
                  /\ resp'.entries[i].name = "student_1"
                  /\ resp'.entries[i].status \in {"running", "created"} ]_vars

C4_Witness ==
    /\ nextId = 1
    /\ req.op = "list" /\ resp.kind = "list"
    /\ Len(resp.entries) = 1
    /\ resp.entries[1].name = "student_1"
    /\ resp.entries[1].status = "running"

\* C5: a restart request whose container resolves and whose status is read
\* issues exactly one engine call on that container: restart if and only if
\* the status read is running, start for every other status.
C5_ExactlyOneAction ==
    /\ (req.op = "restart" /\ ~req.fault /\ Resolves(containers, req.ident))
          => observed \in Statuses
    /\ (req.op = "restart" /\ observed # "none")
          => /\ Len(calls) = 1
             /\ calls[1].op \in {"start", "restart"}
             /\ calls[1].op = "restart" <=> observed = "running"
             /\ calls[1].id = Resolve(containers, req.ident).id

C5_Witness ==
    /\ req.op = "restart" /\ observed = "dead"
    /\ Len(calls) = 1 /\ calls[1].op = "start"

\* C6: a restart request that answers success has issued the engine call of
\* the status it read, without error, and its message is the one of that
\* status: started for exited, restarted for running, resumed for paused and
\* created, started (fallback) for any other.
C6_MessageKeyedToState ==
    /\ (req.op = "restart" /\ resp.success)
          => /\ observed \in Statuses
             /\ Len(calls) = 1 /\ calls[1].ok
             /\ calls[1].op = IF observed = "running" THEN "restart" ELSE "start"
             /\ LET nm == Resolve(containers, req.ident).name
                IN  resp.message =
                      CASE observed = "exited"  -> "Container " \o nm \o " started successfully."
                        [] observed = "running" -> "Container " \o nm \o " restarted successfully."
                        [] observed = "paused"  -> "Container " \o nm \o " resumed successfully."
                        [] observed = "created" -> "Container " \o nm \o " resumed successfully."
                        [] OTHER                -> "Container " \o nm \o " started."
    /\ (req.op = "restart" /\ (calls = <<>> \/ \E i \in 1..Len(calls) : ~calls[i].ok))
          => ~resp.success

C6_Witness ==
    /\ req.op = "restart" /\ resp.success /\ observed = "created"
    /\ resp.message = "Container student_1 resumed successfully."

\* C7: with no engine fault, remove of a container that resolves succeeds in
\* every state of the container and leaves the identifier unresolved; a
\* second remove of the same identifier right after it fails with the
\* not-found error and the identifier is still unresolved.
C7_RemoveTwice ==
    [][ /\ (req'.op = "remove" /\ ~req'.fault /\ Resolves(containers, req'.ident))
            => /\ resp'.success
               /\ ~Resolves(containers', req'.ident)
               /\ containers' = containers \ {Resolve(containers, req'.ident)}
        /\ (/\ req.op = "remove" /\ resp.success
            /\ req'.op = "remove" /\ req'.ident = req.ident /\ ~req'.fault)
            => /\ ~resp'.success
               /\ raised' = "NotFound"
               /\ resp'.error = Str(NotFoundExc)
               /\ ~Resolves(containers', req.ident) ]_vars

C7_Witness ==
    /\ req.op = "remove" /\ req.ident = IdOf(1) /\ nextId >= 1
    /\ raised = "NotFound" /\ ~resp.success
    /\ ~Resolves(containers, req.ident)

\* C8: a restart request whose identifier does not resolve answers not found
\* with HTTP 404, issues no engine call and leaves every container as it
\* was; no restart request that fails for a denied socket or an engine API
\* error answers with that status or that text.
C8_RestartNotFound ==
    [][ /\ (req'.op = "restart" /\ ~req'.fault /\ ~Resolves(containers, req'.ident))
            => /\ resp' = [kind |-> "json", success |-> FALSE, http |-> 404,
                           error |-> NotFoundText]
               /\ raised' = "NotFound"
               /\ calls' = <<>>
               /\ containers' = containers
        /\ (req'.op = "restart" /\ raised' \in ExcTypes)
            => /\ ~resp'.success
               /\ resp'.http # 404
               /\ resp'.error # NotFoundText
               /\ raised' = "APIError" => resp'.error # "Permission denied to access Docker socket."
        ]_vars

C8_Witness ==
    /\ req.op = "restart" /\ raised = "NotFound"
    /\ resp.http = 404 /\ resp.error = NotFoundText
    /\ containers # {}

\* C9: a create request one of whose engine calls raises answers with the
\* JSON outcome success=false and the engine's error text, and adds no
\* container.
C9_CreateFailureStructured ==
    (req.op = "create" /\ raised # "none")
        => /\ resp.kind = "json"
           /\ ~resp.success
           /\ calls # <<>> => calls[1].id = ""

\* C10: a listing holds exactly one entry for every container the engine
\* holds, with the container's own name and status; an entry's image is
\* "unknown" when the container's image cannot be resolved, "untagged" when
\* it has no tags, its first tag otherwise, whatever the other containers'
\* images are.  The listing is returned whenever the engine's list call is.
C10_ListingIsolatesImageFailures ==
    /\ (req.op = "list" /\ ~req.fault) => resp.kind = "list"
    /\ (req.op = "list" /\ resp.kind = "list")
          => /\ Len(resp.entries) = Cardinality(containers)
             /\ \A i, j \in 1..Len(resp.entries) :
                   resp.entries[i].id = resp.entries[j].id => i = j
             /\ \A c \in containers : \E i \in 1..Len(resp.entries) :
                   resp.entries[i] =
                      [id |-> c.id, name |-> c.name, status |-> c.status,
                       image |-> CASE c.image = "missing"  -> "unknown"
                                   [] c.image = "untagged" -> "untagged"
                                   [] OTHER -> c.tag]

C10_Witness ==
    /\ req.op = "list" /\ resp.kind = "list"
    /\ Len(resp.entries) = 2
    /\ resp.entries[1].image = "unknown"
    /\ resp.entries[1].name = ForeignName(2)
    /\ resp.entries[2].image = WettyImage \o ":latest"
    /\ resp.entries[2].status = "exited"

\* C11 (as claimed): the cpu value returned is 0 when systemDelta <= 0 or
\* cpuDelta <= 0, and is otherwise exactly
\* (cpuDelta / systemDelta) * onlineCpuCount * 100 (here in hundredths).
C11_CpuPercentExact ==
    (req.op = "stats" /\ resp.success)
        => LET cd == stats.cpu - stats.precpu
               sd == stats.sys - stats.presys
               n  == IF stats.ncpu = 0 THEN 1 ELSE stats.ncpu
           IN  /\ (sd <= 0 \/ cd <= 0) => resp.cpu = 0
               /\ (sd > 0 /\ cd > 0) => resp.cpu * sd = cd * n * 100 * 100

\* C11 (amended): the cpu value returned is 0 when systemDelta <= 0 or
\* cpuDelta <= 0, is otherwise (cpuDelta / systemDelta) * onlineCpuCount * 100
\* rounded to the nearest hundredth, onlineCpuCount being 1 when no per-CPU
\* breakdown is reported, and is never negative; deltas 50 and 500 on 2 CPUs
\* give 20.00.
C11_CpuPercentRounded ==
    /\ (req.op = "stats" /\ resp.success)
          => LET cd == stats.cpu - stats.precpu
                 sd == stats.sys - stats.presys
                 n  == IF stats.ncpu = 0 THEN 1 ELSE stats.ncpu
                 err == resp.cpu * sd - cd * n * 100 * 100
             IN  /\ resp.cpu >= 0
                 /\ (sd <= 0 \/ cd <= 0) => resp.cpu = 0
                 /\ (sd > 0 /\ cd > 0) => (2 * err <= sd /\ 2 * (0 - err) <= sd)
    /\ CpuField(Snapshot(50, 0, 500, 0, 2, 0)) = 20 * 100
    /\ CpuField(Snapshot(50, 0, 500, 0, 0, 0)) = 10 * 100

C11_Witness ==
    /\ req.op = "stats" /\ resp.success
    /\ stats.cpu - stats.precpu = 1
    /\ stats.sys - stats.presys = 3
    /\ stats.ncpu = 0
    /\ resp.cpu = 3333

\* C12: a restart request that answers success leaves its container
\* running, whatever status it read.
C12_SuccessLeavesRunning ==
    (req.op = "restart" /\ resp.success)
        => /\ Resolves(containers, req.ident)
           /\ Resolve(containers, req.ident).status = "running"

C12_Witness ==
    /\ req.op = "restart" /\ resp.success /\ observed = "exited"
    /\ Resolve(containers, req.ident).status = "running"

\* name and host port of every container held, by id
Identity(cs) == {[id |-> c.id, name |-> c.name, port |-> c.port] : c \in cs}

\* the id has been given to a container and no container holds it now
Removed(id) ==
    /\ \E n \in 1..nextId : id = IdOf(n)
    /\ ~Resolves(containers, id)

\* a step in which the restart in flight at position k answers
RestartAnswers(k) ==
    /\ k \in 1..Len(pending)
    /\ pending[k].op = "restart" /\ pending[k].seen # "none"
    /\ pending' = Without(pending, k)
    /\ req'.op = "restart" /\ req'.ident = pending[k].ident
    /\ observed' = pending[k].seen

\* C13: the status a restart request decides from is the one its reload
\* read from the engine in that same request, and the engine call it issues
\* is the one its if/elif chain gives for that status: restart for running,
\* start for any other; the status the container has when the call reaches
\* the engine plays no part, so another request between the reload and the
\* call can leave the two different.
C13_ActionMatchesReload ==
    [][ /\ \A k \in 1..Len(pending) :
              (/\ pending[k].op = "restart" /\ pending[k].seen = "none"
               /\ Len(pending') = Len(pending)
               /\ pending'[k].seen # "none")
              => (/\ Resolves(containers, pending[k].id)
                  /\ pending'[k].seen = Resolve(containers, pending[k].id).status)
        /\ \A k \in 1..Len(pending) :
              (RestartAnswers(k) /\ calls' # <<>>)
              => (/\ calls'[1].op = IF pending[k].seen = "running"
                                    THEN "restart" ELSE "start"
                  /\ calls'[1].id = pending[k].id) ]_vars

\* restart is issued, from a reload that read running, on a container that
\* a stop in between has left exited
C13_Witness ==
    /\ req.op = "restart"
    /\ observed = "running" /\ actedOn = "exited"
    /\ calls # <<>> /\ calls[1].op = "restart"

\* a step in which the create in flight at position k, which computed the
\* name a create that read its listings alongside it was given, answers
RivalAnswers(k) ==
    /\ k \in 1..Len(pending)
    /\ HasRead(pending[k])
    /\ pending[k].name = NoName
    /\ pending[k].peer = pending[k].alloc
    /\ \E won \in BOOLEAN : pending' = AfterRun(pending, k, won)
    /\ req'.op = "create"

\* two unnamed creates in flight that read the same listings hold the same
\* name and the same host port
SameReadSameAllocation ==
    \A j, k \in 1..Len(pending) :
        (/\ HasRead(pending[j]) /\ HasRead(pending[k])
         /\ pending[j].name = NoName /\ pending[k].name = NoName
         /\ pending[j].sawAll = pending[k].sawAll
         /\ pending[j].sawLive = pending[k].sawLive)
        => (/\ pending[j].alloc = pending[k].alloc
            /\ pending[j].alloc = "student_" \o ToString(pending[j].sawAll + 1)
            /\ pending[j].port = pending[k].port
            /\ pending[j].port = 5050 + pending[j].sawLive)

\* no two containers the engine holds share a name, and no two with a live
\* process share a host port
NoSharedNameOrPort ==
    \A c, d \in containers :
        c # d => (/\ c.name # d.name
                  /\ (c.status \in {"running", "paused"} /\ d.status \in {"running", "paused"})
                        => c.port # d.port)

C15_Frame ==
    [][ /\ Identity(containers') # Identity(containers)
            => req'.op \in {"create", "remove"}
        /\ req'.op \in {"list", "stats"} => containers' = containers
        /\ (req'.op = "create" /\ resp'.success)
            => /\ containers \subseteq containers'
               /\ Cardinality(containers' \ containers) = 1
        /\ (req'.op = "remove" /\ resp'.success)
            => /\ Resolves(containers, req'.ident)
               /\ containers' = containers \ {Resolve(containers, req'.ident)}
        /\ (req'.op = "remove" /\ ~resp'.success) => containers' = containers
        ]_vars

C15_Witness ==
    /\ req.op = "stop" /\ resp.success
    /\ Cardinality(containers) = 2
    /\ \A c \in containers : c.status = "exited"

C17_UnresolvedFails ==
    [][ (req'.op \in {"stats", "stop", "remove"} /\ ~Resolves(containers, req'.ident))
            => /\ resp'.kind = "json"
               /\ ~resp'.success
               /\ resp'.error # ""
               /\ calls' = <<>>
               /\ containers' = containers ]_vars

C17_Witness ==
    /\ req.op = "stats" /\ ~req.fault /\ ~Resolves(containers, req.ident)
    /\ ~resp.success /\ resp.error = Str(NotFoundExc)
    /\ containers # {}

\* C18: the name and host port a create passes to the engine are those the
\* engine state alone decides, with or without a port in the request: the
\* requested name unchanged when there is one, student_(n + 1) otherwise,
\* and 5050 plus the number of containers with a live process.
C18_PortHintIgnored ==
    (req.op = "create" /\ calls # <<>>)
        => LET new  == {c \in containers : c.id = calls[1].id}
               all  == Cardinality(containers \ new)
               live == Cardinality(Listed(containers \ new, FALSE))
           IN  /\ calls[1].port = 5050 + live
               /\ calls[1].name = IF req.name # NoName THEN req.name
                                  ELSE "student_" \o ToString(all + 1)
               /\ resp.success => (resp.port = calls[1].port /\ resp.name = calls[1].name)

C18_Witness ==
    /\ req.op = "create" /\ req.port = 8080 /\ req.name = "student_2"
    /\ resp.success /\ resp.port = 5050 /\ resp.name = "student_2"

=============================================================================
